---- MODULE Spec2Model ----
(***************************************************************************)
(* AES key wrap provider cipher (providers/common/ciphers/cipher_aes_wrp.c)*)
(*                                                                         *)
(* The session object PROV_AES_WRAP_CTX and its entry points (newctx,      *)
(* einit/dinit, update, final, set_ctx_params, freectx) are translated     *)
(* from the C source.  The key-wrap transform (CRYPTO_128_wrap and         *)
(* friends), the block cipher and cipher_generic_initkey live in other     *)
(* files of the library; they are modelled from the written specification  *)
(* (sections 4.1, 4.1.1, 4.2, 4.4 and 6).                                  *)
(***************************************************************************)
EXTENDS Integers, Naturals, Sequences, FiniteSets, TLC

VARIABLES ctx, last, phase, rt

vars == <<ctx, last, phase, rt>>

(***************************************************************************)
(* Bounds of the model.                                                    *)
(***************************************************************************)
\* longest message handed to the update call, in bytes
MaxInLen == 24
\* width of size_t in the model, in bits (the code only needs SIZE_MAX to
\* be larger than every real length)
SizeBits == 16

(***************************************************************************)
(* Program constants.                                                      *)
(***************************************************************************)
AES_WRAP_PAD_IVLEN == 4
AES_WRAP_NOPAD_IVLEN == 8
\* sizeof(ctx->iv) in PROV_CIPHER_CTX
GENERIC_BLOCK_SIZE == 16

SIZE_MAX == 2^SizeBits - 1

\* (size_t)x for an int x
to_size_t(x) == x % (SIZE_MAX + 1)

\* pointers: NULL, or a pointer to a buffer holding the byte sequence b
NULL == <<>>
Ptr(b) == <<b>>
Deref(p) == p[1]

\* the value of a set that holds exactly one; used to name the result of a
\* call once and use it several times
Only(S) == CHOOSE x \in S : TRUE

(***************************************************************************)
(* Bytes and semiblocks.                                                   *)
(***************************************************************************)
RECURSIVE XorN(_, _, _)
XorN(a, b, n) ==
    IF n = 0 THEN 0
    ELSE (((a % 2) + (b % 2)) % 2) + 2 * XorN(a \div 2, b \div 2, n - 1)

XorByte(a, b) == IF b = 0 THEN a ELSE IF a = 0 THEN b ELSE XorN(a, b, 8)

RECURSIVE Zeros(_)
Zeros(n) == IF n = 0 THEN <<>> ELSE <<0>> \o Zeros(n - 1)

Slice(s, from, to) == SubSeq(s, from, to)

\* t as an 8-byte big-endian integer (t < 2^32 in every use)
BE8(t) ==
    <<0, 0, 0, 0, (t \div 16777216) % 256, (t \div 65536) % 256,
      (t \div 256) % 256, t % 256>>

\* the 4-byte big-endian message-length indicator
MLI4(len) ==
    <<(len \div 16777216) % 256, (len \div 65536) % 256,
      (len \div 256) % 256, len % 256>>

FromBE4(b) == ((b[1] * 256 + b[2]) * 256 + b[3]) * 256 + b[4]

XorT(A, t) ==
    [A EXCEPT ![5] = XorByte(@, BE8(t)[5]), ![6] = XorByte(@, BE8(t)[6]),
              ![7] = XorByte(@, BE8(t)[7]), ![8] = XorByte(@, BE8(t)[8])]

RoundUp8(n) == ((n + 7) \div 8) * 8

(***************************************************************************)
(* Block cipher adapter: a keyed permutation of 16-byte blocks.  A key     *)
(* schedule is expanded for one direction; the decrypt schedule is the     *)
(* encrypt schedule in reverse order, so the decrypt function inverts the  *)
(* encrypt function only when each is given its own schedule.              *)
(***************************************************************************)
RECURSIVE FoldKey(_, _, _)
FoldKey(key, pos, acc) ==
    IF pos > Len(key) THEN acc
    ELSE FoldKey(key, pos + 1,
                 [acc EXCEPT ![((pos - 1) % 16) + 1] =
                      (@ + key[pos] * (1 + (pos - 1) \div 16)) % 256])

RECURSIVE RevSeq(_)
RevSeq(s) == IF s = <<>> THEN <<>> ELSE RevSeq(Tail(s)) \o <<Head(s)>>

ZeroKs == [dir |-> "none", rk |-> Zeros(16)]

AES_set_encrypt_key(key, bits) ==
    [dir |-> "enc", rk |-> FoldKey(key, 1, Zeros(16))]

AES_set_decrypt_key(key, bits) ==
    [dir |-> "dec", rk |-> RevSeq(FoldKey(key, 1, Zeros(16)))]

\* one keyed mixing step on the two halves of a block, and its inverse
Permute(rk, blk) ==
    LET L == SubSeq(blk, 1, 8)
        R == SubSeq(blk, 9, 16)
    IN  (Tail(R) \o <<(R[1] + rk[1] + 1) % 256>>)
        \o (Tail(L) \o <<(L[1] + R[2] + rk[16]) % 256>>)

InvPermute(rk, blk) ==
    LET R == <<(blk[8] - rk[1] - 1) % 256>> \o SubSeq(blk, 1, 7)
        L == <<(blk[16] - R[2] - rk[16]) % 256>> \o SubSeq(blk, 9, 15)
    IN  L \o R

AES_encrypt(ks, blk) == Permute(ks.rk, blk)

AES_decrypt(ks, blk) == InvPermute(RevSeq(ks.rk), blk)

\* call through a block128_f function pointer
CallBlock(block, ks, blk) ==
    IF block = "AES_encrypt" THEN AES_encrypt(ks, blk)
    ELSE AES_decrypt(ks, blk)
(***************************************************************************)
(* Key-wrap transform, plain mode (specification 4.1 and 4.1.1).           *)
(* A transform returns [rv, out]: the number of bytes produced (0 signals  *)
(* failure) and the bytes written to the output buffer.                    *)
(***************************************************************************)
default_iv == <<166, 166, 166, 166, 166, 166, 166, 166>>
default_aiv == <<166, 89, 89, 166>>

RECURSIVE SemiblocksFrom(_, _)
SemiblocksFrom(data, i) ==
    IF 8 * i > Len(data) THEN <<>>
    ELSE <<Slice(data, 8 * i - 7, 8 * i)>> \o SemiblocksFrom(data, i + 1)

Semiblocks(data) == SemiblocksFrom(data, 1)

RECURSIVE Flatten(_, _)
Flatten(R, i) == IF i > Len(R) THEN <<>> ELSE R[i] \o Flatten(R, i + 1)

\* one wrap step t on the state st = [A, R]
WrapStep(ks, block, st, t) ==
    LET n == Len(st.R)
        i == ((t - 1) % n) + 1
    IN  Only({[A |-> XorT(Slice(B, 1, 8), t),
               R |-> [st.R EXCEPT ![i] = Slice(B, 9, 16)]] :
              B \in {CallBlock(block, ks, st.A \o st.R[i])}})

\* wrap steps t..6n, t = n*j + i
RECURSIVE WrapRounds(_, _, _, _)
WrapRounds(ks, block, st, t) ==
    IF t > 6 * Len(st.R) THEN st
    ELSE Only({WrapRounds(ks, block, nx, t + 1) :
               nx \in {WrapStep(ks, block, st, t)}})

\* one unwrap step t on the state st = [A, R]
UnwrapStep(ks, block, st, t) ==
    LET n == Len(st.R)
        i == ((t - 1) % n) + 1
    IN  Only({[A |-> Slice(B, 1, 8),
               R |-> [st.R EXCEPT ![i] = Slice(B, 9, 16)]] :
              B \in {CallBlock(block, ks, XorT(st.A, t) \o st.R[i])}})

\* unwrap steps t..1, t counted down from 6n
RECURSIVE UnwrapRounds(_, _, _, _)
UnwrapRounds(ks, block, st, t) ==
    IF t < 1 THEN st
    ELSE Only({UnwrapRounds(ks, block, nx, t - 1) :
               nx \in {UnwrapStep(ks, block, st, t)}})

\* wrap of a whole number of semiblocks under the 8-byte accumulator A0
WrapRaw(ks, A0, data, block) ==
    IF Len(data) = 8 THEN CallBlock(block, ks, A0 \o data)
    ELSE Only({w.A \o Flatten(w.R, 1) :
               w \in {WrapRounds(ks, block,
                                 [A |-> A0, R |-> Semiblocks(data)], 1)}})

\* inverse: the recovered accumulator and data, no check applied
UnwrapRaw(ks, data, block) ==
    IF Len(data) = 16
    THEN Only({[A |-> Slice(B, 1, 8), P |-> Slice(B, 9, 16)] :
               B \in {CallBlock(block, ks, data)}})
    ELSE Only({[A |-> u.A, P |-> Flatten(u.R, 1)] :
               u \in {UnwrapRounds(ks, block,
                                   [A |-> Slice(data, 1, 8),
                                    R |-> Semiblocks(Slice(data, 9, Len(data)))],
                                   6 * ((Len(data) \div 8) - 1))}})

Failed == [rv |-> 0, out |-> <<>>]

CRYPTO_128_wrap(ks, iv, in, inlen, block) ==
    IF inlen = 0 \/ inlen % 8 # 0 THEN Failed
    ELSE LET A0 == IF iv = NULL THEN default_iv ELSE Slice(Deref(iv), 1, 8)
         IN  [rv |-> inlen + 8, out |-> WrapRaw(ks, A0, in, block)]

CRYPTO_128_unwrap(ks, iv, in, inlen, block) ==
    IF inlen < 16 \/ inlen % 8 # 0 THEN Failed
    ELSE LET A0 == IF iv = NULL THEN default_iv ELSE Slice(Deref(iv), 1, 8)
         IN  Only({IF u.A # A0 THEN Failed
                   ELSE [rv |-> inlen - 8, out |-> u.P] :
                   u \in {UnwrapRaw(ks, in, block)}})

(***************************************************************************)
(* Key-wrap transform, padding mode (specification 4.2).                   *)
(***************************************************************************)
CRYPTO_128_wrap_pad(ks, icv, in, inlen, block) ==
    IF inlen = 0 THEN Failed
    ELSE LET aiv == (IF icv = NULL THEN default_aiv
                     ELSE Slice(Deref(icv), 1, 4)) \o MLI4(inlen)
             padded == in \o Zeros(RoundUp8(inlen) - inlen)
         IN  [rv |-> RoundUp8(inlen) + 8,
              out |-> WrapRaw(ks, aiv, padded, block)]

CRYPTO_128_unwrap_pad(ks, icv, in, inlen, block) ==
    IF inlen < 16 \/ inlen % 8 # 0 THEN Failed
    ELSE LET expect == IF icv = NULL THEN default_aiv
                       ELSE Slice(Deref(icv), 1, 4)
             plen == inlen - 8
         IN  Only({LET mli == FromBE4(Slice(u.A, 5, 8))
                   IN  IF Slice(u.A, 1, 4) # expect THEN Failed
                       ELSE IF ~(0 < mli /\ mli <= plen /\ mli >= plen - 7)
                            THEN Failed
                       ELSE [rv |-> mli, out |-> Slice(u.P, 1, mli)] :
                   u \in {UnwrapRaw(ks, in, block)}})

\* call through an aeswrap_fn function pointer
CallWrapfn(wrapfn, ks, iv, in, inlen, block) ==
    CASE wrapfn = "CRYPTO_128_wrap" -> CRYPTO_128_wrap(ks, iv, in, inlen, block)
      [] wrapfn = "CRYPTO_128_unwrap" -> CRYPTO_128_unwrap(ks, iv, in, inlen, block)
      [] wrapfn = "CRYPTO_128_wrap_pad" -> CRYPTO_128_wrap_pad(ks, iv, in, inlen, block)
      [] OTHER -> CRYPTO_128_unwrap_pad(ks, iv, in, inlen, block)
(***************************************************************************)
(* The session: PROV_AES_WRAP_CTX (base.keylen, base.ivlen, base.pad,      *)
(* base.enc, base.block, base.iv, ks, iv_set, wrapfn).                     *)
(***************************************************************************)
\* memory as OPENSSL_zalloc and OPENSSL_clear_free leave it
ZeroCtx ==
    [keylen |-> 0, ivlen |-> 0, pad |-> 0, enc |-> 0, block |-> "NULL",
     wrapfn |-> "NULL", iv |-> Zeros(GENERIC_BLOCK_SIZE), iv_set |-> 0,
     ks |-> ZeroKs]

\* the fields cipher_generic_initkey fills in that this file reads
cipher_generic_initkey(c, kbits, ivbits) ==
    [c EXCEPT !.pad = 1, !.keylen = kbits \div 8, !.ivlen = ivbits \div 8]

aes_wrap_newctx(kbits, ivbits) ==
    LET c == cipher_generic_initkey(ZeroCtx, kbits, ivbits)
    IN  [c EXCEPT !.pad = IF c.ivlen = AES_WRAP_PAD_IVLEN THEN 1 ELSE 0]

\* OPENSSL_cleanse overwrites a buffer; OPENSSL_clear_free overwrites the
\* whole object before releasing it.  After the release the record stands
\* for what the released memory still holds.
OPENSSL_cleanse(buf) == Zeros(Len(buf))
OPENSSL_clear_free(c) == ZeroCtx

\* a slip: the object is released with OPENSSL_free, contents left in place
aes_wrap_freectx_plain_free(c) == [c EXCEPT !.iv = OPENSSL_cleanse(c.iv)]

aes_wrap_freectx(c) ==
    OPENSSL_clear_free([c EXCEPT !.iv = OPENSSL_cleanse(c.iv)])

\* memcpy(dst, src, n) into the front of a buffer
memcpy(dst, src, n) == SubSeq(src, 1, n) \o SubSeq(dst, n + 1, Len(dst))

\* a slip: the wrap function is picked as if the variant never padded
aes_wrap_init_direction_nopad(c, enc) ==
    [c EXCEPT
       !.enc = enc,
       !.block = IF enc # 0 THEN "AES_encrypt" ELSE "AES_decrypt",
       !.wrapfn = IF enc # 0 THEN "CRYPTO_128_wrap" ELSE "CRYPTO_128_unwrap"]

\* aes_wrap_init, first part: direction, block function, wrap function
aes_wrap_init_direction(c, enc) ==
    [c EXCEPT
       !.enc = enc,
       !.block = IF enc # 0 THEN "AES_encrypt" ELSE "AES_decrypt",
       !.wrapfn = IF c.pad # 0
                  THEN (IF enc # 0 THEN "CRYPTO_128_wrap_pad"
                        ELSE "CRYPTO_128_unwrap_pad")
                  ELSE (IF enc # 0 THEN "CRYPTO_128_wrap"
                        ELSE "CRYPTO_128_unwrap")]

\* a slip: an Init without IV forgets that an IV was set
aes_wrap_init_iv_reset(c, iv, ivlen) ==
    IF iv # NULL
    THEN [c EXCEPT !.ivlen = ivlen,
                   !.iv = memcpy(c.iv, Deref(iv), ivlen),
                   !.iv_set = 1]
    ELSE [c EXCEPT !.iv_set = 0]

\* a slip: the padding mode is derived again from the stored IV length
aes_wrap_init_iv_repad(c, iv, ivlen) ==
    IF iv # NULL
    THEN [c EXCEPT !.ivlen = ivlen,
                   !.iv = memcpy(c.iv, Deref(iv), ivlen),
                   !.iv_set = 1,
                   !.pad = IF ivlen = AES_WRAP_PAD_IVLEN THEN 1 ELSE 0]
    ELSE c

\* aes_wrap_init, second part: the IV
aes_wrap_init_iv(c, iv, ivlen) ==
    IF iv # NULL
    THEN [c EXCEPT !.ivlen = ivlen,
                   !.iv = memcpy(c.iv, Deref(iv), ivlen),
                   !.iv_set = 1]
    ELSE c

\* a slip: the key is always expanded for encryption
aes_wrap_init_key_enc_only(c, key, keylen) ==
    IF key # NULL
    THEN IF keylen # c.keylen
         THEN [ctx |-> c, ret |-> 0, err |-> "PROV_R_INVALID_KEY_LENGTH"]
         ELSE [ctx |-> [c EXCEPT !.ks =
                           AES_set_encrypt_key(Deref(key), keylen * 8)],
               ret |-> 1, err |-> "none"]
    ELSE [ctx |-> c, ret |-> 1, err |-> "none"]

\* a slip: a key of another length is expanded as it comes
aes_wrap_init_key_unchecked(c, key, keylen) ==
    IF key # NULL
    THEN [ctx |-> [c EXCEPT !.ks =
                      IF c.enc # 0
                      THEN AES_set_encrypt_key(Deref(key), keylen * 8)
                      ELSE AES_set_decrypt_key(Deref(key), keylen * 8)],
          ret |-> 1, err |-> "none"]
    ELSE [ctx |-> c, ret |-> 1, err |-> "none"]

\* aes_wrap_init, third part: the key; gives [ctx, ret, err]
aes_wrap_init_key(c, key, keylen) ==
    IF key # NULL
    THEN IF keylen # c.keylen
         THEN [ctx |-> c, ret |-> 0, err |-> "PROV_R_INVALID_KEY_LENGTH"]
         ELSE [ctx |-> [c EXCEPT !.ks =
                           IF c.enc # 0
                           THEN AES_set_encrypt_key(Deref(key), keylen * 8)
                           ELSE AES_set_decrypt_key(Deref(key), keylen * 8)],
               ret |-> 1, err |-> "none"]
    ELSE [ctx |-> c, ret |-> 1, err |-> "none"]

aes_wrap_init(c, key, keylen, iv, ivlen, enc) ==
    aes_wrap_init_key(
        aes_wrap_init_iv(aes_wrap_init_direction(c, enc), iv, ivlen),
        key, keylen)

aes_wrap_einit(c, key, keylen, iv, ivlen) ==
    aes_wrap_init(c, key, keylen, iv, ivlen, 1)

aes_wrap_dinit(c, key, keylen, iv, ivlen) ==
    aes_wrap_init(c, key, keylen, iv, ivlen, 0)

(***************************************************************************)
(* The update call.  aes_wrap_cipher_internal returns an int; the record   *)
(* also carries the bytes the transform wrote, whether the transform was   *)
(* invoked, the iv argument it was given, and whether the call went        *)
(* through a null function pointer.                                        *)
(***************************************************************************)
Internal(rv) ==
    [rv |-> rv, out |-> <<>>, invoked |-> FALSE, crash |-> FALSE,
     iv_arg |-> NULL]

\* a slip: the padded length is not rounded up
aes_wrap_query_size_no_round(c, inlen) ==
    IF c.enc # 0 THEN inlen + 8 ELSE inlen - 8

\* the out == NULL branch of aes_wrap_cipher_internal
aes_wrap_query_size(c, inlen) ==
    IF c.enc # 0
    THEN (IF c.pad # 0 THEN ((inlen + 7) \div 8) * 8 ELSE inlen) + 8
    ELSE inlen - 8

aes_wrap_cipher_internal(c, out, in, inlen) ==
    IF in = NULL THEN Internal(0)
    ELSE IF inlen = 0 THEN Internal(-1)
    ELSE IF c.enc = 0 /\ (inlen < 16 \/ inlen % 8 # 0) THEN Internal(-1)
    ELSE IF c.pad = 0 /\ inlen % 8 # 0 THEN Internal(-1)
    ELSE IF out = NULL THEN Internal(aes_wrap_query_size(c, inlen))
    ELSE IF c.wrapfn = "NULL"
         THEN [rv |-> 0, out |-> <<>>, invoked |-> FALSE, crash |-> TRUE,
               iv_arg |-> NULL]
    ELSE Only({[rv |-> IF r.rv # 0 THEN r.rv ELSE -1, out |-> r.out,
                invoked |-> TRUE, crash |-> FALSE,
                iv_arg |-> IF c.iv_set # 0 THEN Ptr(c.iv) ELSE NULL] :
               r \in {CallWrapfn(c.wrapfn, c.ks,
                                 IF c.iv_set # 0 THEN Ptr(c.iv) ELSE NULL,
                                 Deref(in), inlen, c.block)}})

\* [ret, outl_written, outl, err, out, invoked, crash, iv_arg]
aes_wrap_cipher(c, out, outsize, in, inl) ==
    IF outsize < inl
    THEN [ret |-> -1, outl_written |-> FALSE, outl |-> 0,
          err |-> "PROV_R_OUTPUT_BUFFER_TOO_SMALL", out |-> <<>>,
          invoked |-> FALSE, crash |-> FALSE, iv_arg |-> NULL]
    ELSE Only({
           IF r.crash
           THEN [ret |-> 0, outl_written |-> FALSE, outl |-> 0,
                 err |-> "none", out |-> <<>>, invoked |-> FALSE,
                 crash |-> TRUE, iv_arg |-> NULL]
           ELSE IF to_size_t(r.rv) = 0
           THEN [ret |-> -1, outl_written |-> FALSE, outl |-> 0,
                 err |-> "none", out |-> r.out, invoked |-> r.invoked,
                 crash |-> FALSE, iv_arg |-> r.iv_arg]
           ELSE [ret |-> 1, outl_written |-> TRUE, outl |-> to_size_t(r.rv),
                 err |-> "none", out |-> r.out, invoked |-> r.invoked,
                 crash |-> FALSE, iv_arg |-> r.iv_arg] :
           r \in {aes_wrap_cipher_internal(c, out, in, inl)}})

\* a slip: the capacity is reported as the number of bytes written
aes_wrap_final_outsize(c, outsize) ==
    [ret |-> 1, outl_written |-> TRUE, outl |-> outsize]

aes_wrap_final(c, outsize) == [ret |-> 1, outl_written |-> TRUE, outl |-> 0]

(***************************************************************************)
(* Parameters.  An OSSL_PARAM array is a sequence of entries               *)
(* [key, is_size_t, val]; is_size_t says whether OSSL_PARAM_get_size_t     *)
(* can read the entry.                                                     *)
(***************************************************************************)
OSSL_PARAM_locate_const(params, name) ==
    IF \E i \in 1..Len(params) : params[i].key = name
    THEN Ptr(params[CHOOSE i \in 1..Len(params) :
                       /\ params[i].key = name
                       /\ \A j \in 1..(i - 1) : params[j].key # name])
    ELSE NULL

OSSL_PARAM_get_size_t(p) == [ok |-> Deref(p).is_size_t, val |-> Deref(p).val]

\* a slip: the key length is stored, as the generic set_ctx_params does
aes_wrap_set_ctx_params_store(c, params) ==
    LET p == OSSL_PARAM_locate_const(params, "keylen")
    IN  IF p # NULL
        THEN IF ~OSSL_PARAM_get_size_t(p).ok
             THEN [ctx |-> c, ret |-> 0, err |-> "PROV_R_FAILED_TO_GET_PARAMETER"]
             ELSE [ctx |-> [c EXCEPT !.keylen = OSSL_PARAM_get_size_t(p).val],
                   ret |-> 1, err |-> "none"]
        ELSE [ctx |-> c, ret |-> 1, err |-> "none"]

aes_wrap_set_ctx_params(c, params) ==
    LET p == OSSL_PARAM_locate_const(params, "keylen")
    IN  IF p # NULL
        THEN IF ~OSSL_PARAM_get_size_t(p).ok
             THEN [ctx |-> c, ret |-> 0, err |-> "PROV_R_FAILED_TO_GET_PARAMETER"]
             ELSE IF c.keylen # OSSL_PARAM_get_size_t(p).val
             THEN [ctx |-> c, ret |-> 0, err |-> "PROV_R_INVALID_KEY_LENGTH"]
             ELSE [ctx |-> c, ret |-> 1, err |-> "none"]
        ELSE [ctx |-> c, ret |-> 1, err |-> "none"]
(***************************************************************************)
(* Inputs of the calls.                                                    *)
(***************************************************************************)
\* IMPLEMENT_cipher(wrap, ...): key bits and IV bits of the six variants
Variants ==
    {[kbits |-> k, ivbits |-> v * 8] :
        k \in {128, 192, 256}, v \in {AES_WRAP_NOPAD_IVLEN, AES_WRAP_PAD_IVLEN}}

KeyLens == {16, 24, 32}
KeyOf(len, seed) == [i \in 1..len |-> (seed * 16 + i * 7) % 256]
\* two keys of every length
Keys == {KeyOf(l, seed) : l \in KeyLens, seed \in {1, 2}}
KeyArgs == {NULL} \cup {Ptr(k) : k \in Keys}

IVs == {<<1, 2, 3, 4>>, <<17, 34, 51, 68, 85, 102, 119, 136>>}
IvArgs == {NULL} \cup {Ptr(v) : v \in IVs}

Msg(len) == [i \in 1..len |-> (i * 17) % 256]
InLens == {l \in 0..MaxInLen : l % 8 \in {0, 1, 7}}

\* what a peer holding the variant's first key wrapped with the default IV
PeerCt(c) ==
    LET ek == AES_set_encrypt_key(KeyOf(c.keylen, 1), c.keylen * 8)
    IN  IF c.pad # 0
        THEN CRYPTO_128_wrap_pad(ek, NULL, Msg(7), 7, "AES_encrypt").out
        ELSE CRYPTO_128_wrap(ek, NULL, Msg(16), 16, "AES_encrypt").out

InArgs(c) == {NULL} \cup {Ptr(Msg(l)) : l \in InLens} \cup {Ptr(PeerCt(c))}
InLenOf(in) == IF in = NULL THEN 0 ELSE Len(Deref(in))
OutSizes(inl) == {0, inl, RoundUp8(inl) + 8}

KeylenParam(n) == [key |-> "keylen", is_size_t |-> TRUE, val |-> n]
ParamArgs ==
    {<<>>, <<[key |-> "keylen", is_size_t |-> FALSE, val |-> 0]>>,
     <<[key |-> "padding", is_size_t |-> TRUE, val |-> 0], KeylenParam(16)>>}
    \cup {<<KeylenParam(n)>> : n \in KeyLens}

(***************************************************************************)
(* The record of the most recent call: its arguments and what it gave back *)
(* to the caller.                                                          *)
(***************************************************************************)
NoArgs ==
    [enc |-> 0, key |-> NULL, keylen |-> 0, iv |-> NULL, ivlen |-> 0,
     out_null |-> TRUE, outsize |-> 0, in |-> NULL, inl |-> 0,
     params |-> <<>>]

Call(op, args, ret, err) ==
    [op |-> op, args |-> args, ret |-> ret, err |-> err,
     outl_written |-> FALSE, outl |-> 0, out |-> <<>>, invoked |-> FALSE,
     iv_arg |-> NULL]

CipherCall(args, r) ==
    [op |-> "cipher", args |-> args, ret |-> r.ret, err |-> r.err,
     outl_written |-> r.outl_written, outl |-> r.outl, out |-> r.out,
     invoked |-> r.invoked, iv_arg |-> r.iv_arg]

Idle == Call("idle", NoArgs, 1, "none")

\* the caller's own state outside the round trip: the IV it supplied last
RtIdle == [pc |-> "idle", iv |-> NULL]

(***************************************************************************)
(* One session driven by an arbitrary caller.                              *)
(***************************************************************************)
Init ==
    /\ \E v \in Variants : ctx = aes_wrap_newctx(v.kbits, v.ivbits)
    /\ last = Call("newctx", NoArgs, 1, "none")
    /\ phase = "live"
    /\ rt = RtIdle

DoInit(key, iv, enc) ==
    LET keylen == IF key = NULL THEN 0 ELSE Len(Deref(key))
        ivlen == IF iv = NULL THEN 0 ELSE Len(Deref(iv))
        r == IF enc = 1 THEN aes_wrap_einit(ctx, key, keylen, iv, ivlen)
             ELSE aes_wrap_dinit(ctx, key, keylen, iv, ivlen)
    IN  /\ ctx' = r.ctx
        /\ last' = Call("init",
                        [NoArgs EXCEPT !.enc = enc, !.key = key,
                                       !.keylen = keylen, !.iv = iv,
                                       !.ivlen = ivlen],
                        r.ret, r.err)

EInit ==
    /\ phase = "live"
    /\ last = Idle
    /\ \E key \in KeyArgs, iv \in IvArgs :
          /\ DoInit(key, iv, 1)
          /\ rt' = [rt EXCEPT !.iv = IF iv # NULL THEN iv ELSE @]
    /\ UNCHANGED phase

DInit ==
    /\ phase = "live"
    /\ last = Idle
    /\ \E key \in KeyArgs, iv \in IvArgs :
          /\ DoInit(key, iv, 0)
          /\ rt' = [rt EXCEPT !.iv = IF iv # NULL THEN iv ELSE @]
    /\ UNCHANGED phase

DoCipher(out_null, outsize, in, inl) ==
    \E r \in {aes_wrap_cipher(ctx, IF out_null THEN NULL ELSE Ptr(<<>>),
                               outsize, in, inl)} :
        /\ last' = CipherCall([NoArgs EXCEPT !.out_null = out_null,
                                             !.outsize = outsize,
                                             !.in = in, !.inl = inl], r)
        /\ phase' = IF r.crash THEN "crashed" ELSE phase

Cipher ==
    /\ phase = "live"
    /\ last = Idle
    /\ \E in \in InArgs(ctx), out_null \in BOOLEAN :
          \E outsize \in OutSizes(InLenOf(in)) :
              DoCipher(out_null, outsize, in, InLenOf(in))
    /\ UNCHANGED <<ctx, rt>>

Final ==
    /\ phase = "live"
    /\ last = Idle
    /\ \E outsize \in {0, 16} :
          LET r == aes_wrap_final(ctx, outsize)
          IN  last' = [Call("final", [NoArgs EXCEPT !.outsize = outsize,
                                                    !.out_null = FALSE],
                            r.ret, "none")
                         EXCEPT !.outl_written = r.outl_written,
                                !.outl = r.outl]
    /\ UNCHANGED <<ctx, phase, rt>>

SetCtxParams ==
    /\ phase = "live"
    /\ last = Idle
    /\ \E params \in ParamArgs :
          LET r == aes_wrap_set_ctx_params(ctx, params)
          IN  /\ ctx' = r.ctx
              /\ last' = Call("set_ctx_params",
                              [NoArgs EXCEPT !.params = params], r.ret, r.err)
    /\ UNCHANGED <<phase, rt>>

FreeCtx ==
    /\ phase = "live"
    /\ last = Idle
    /\ ctx' = aes_wrap_freectx(ctx)
    /\ last' = Call("freectx", NoArgs, 1, "none")
    /\ phase' = "freed"
    /\ UNCHANGED rt

\* the caller has looked at the result of the call and goes on
Return ==
    /\ phase = "live"
    /\ last # Idle
    /\ last' = Idle
    /\ UNCHANGED <<ctx, phase, rt>>

Next ==
    EInit \/ DInit \/ Cipher \/ Final \/ SetCtxParams \/ FreeCtx \/ Return

Spec == Init /\ [][Next]_vars
(***************************************************************************)
(* The round trip: a caller wraps a message on one session, then unwraps   *)
(* the result on a fresh session of the same variant.  Each step is one    *)
(* call of the provider; rt is the caller's own state: the variant v, the  *)
(* message P, key and IV handed to the wrap session, key and IV handed to  *)
(* the unwrap session, the queried sizes and the wrapped bytes.            *)
(***************************************************************************)
RtLens == {l \in 1..MaxInLen : l % 8 \in {0, 1, 7}}

RtKeys(v) == {Ptr(k) : k \in {x \in Keys : Len(x) = v.kbits \div 8}}

RtInit ==
    /\ \E v \in Variants, l \in RtLens :
          \E key \in RtKeys(v), iv \in IvArgs :
              /\ ctx = aes_wrap_newctx(v.kbits, v.ivbits)
              /\ rt = [pc |-> "wrap_init", v |-> v, P |-> Msg(l), key |-> key,
                       iv |-> iv, ukey |-> NULL, uiv |-> NULL, wq |-> 0,
                       wret |-> 0, wlen |-> 0, ct |-> <<>>, uq |-> 0]
    /\ last = Call("newctx", NoArgs, 1, "none")
    /\ phase = "live"

RtWrapInit ==
    /\ rt.pc = "wrap_init"
    /\ DoInit(rt.key, rt.iv, 1)
    /\ rt' = [rt EXCEPT !.pc = "wrap_query"]
    /\ UNCHANGED phase

RtWrapQuery ==
    /\ rt.pc = "wrap_query"
    /\ DoCipher(TRUE, Len(rt.P), Ptr(rt.P), Len(rt.P))
    /\ rt' = [rt EXCEPT !.pc = "wrap", !.wq = last'.outl]
    /\ UNCHANGED ctx

RtWrap ==
    /\ rt.pc = "wrap"
    /\ DoCipher(FALSE, rt.wq, Ptr(rt.P), Len(rt.P))
    /\ rt' = [rt EXCEPT !.pc = "new_session", !.wret = last'.ret,
                        !.wlen = last'.outl, !.ct = last'.out]
    /\ UNCHANGED ctx

\* the wrap session is released and the unwrap session created
RtNewSession ==
    /\ rt.pc = "new_session"
    /\ ctx' = aes_wrap_newctx(rt.v.kbits, rt.v.ivbits)
    /\ last' = Call("newctx", NoArgs, 1, "none")
    /\ rt' = [rt EXCEPT !.pc = "unwrap_init"]
    /\ UNCHANGED phase

RtUnwrapInit ==
    /\ rt.pc = "unwrap_init"
    /\ \E key \in RtKeys(rt.v), iv \in IvArgs :
          /\ DoInit(key, iv, 0)
          /\ rt' = [rt EXCEPT !.pc = "unwrap_query", !.ukey = key, !.uiv = iv]
    /\ UNCHANGED phase

RtUnwrapQuery ==
    /\ rt.pc = "unwrap_query"
    /\ DoCipher(TRUE, Len(rt.ct), Ptr(rt.ct), Len(rt.ct))
    /\ rt' = [rt EXCEPT !.pc = "unwrap", !.uq = last'.outl]
    /\ UNCHANGED ctx

RtUnwrap ==
    /\ rt.pc = "unwrap"
    /\ DoCipher(FALSE, Len(rt.ct), Ptr(rt.ct), Len(rt.ct))
    /\ rt' = [rt EXCEPT !.pc = "done"]
    /\ UNCHANGED ctx

RtNext ==
    \/ RtWrapInit
    \/ RtWrapQuery
    \/ RtWrap
    \/ RtNewSession
    \/ RtUnwrapInit
    \/ RtUnwrapQuery
    \/ RtUnwrap

SpecRT == RtInit /\ [][RtNext]_vars

(***************************************************************************)
(* Vocabulary of the properties.                                           *)
(***************************************************************************)
\* the update call just returned, with a real input
CipherReturned == last.op = "cipher" /\ last.args.in # NULL

\* InvalidInputLength as the specification lists it (sections 5 and 7)
InvalidInputLength(c, inl) ==
    \/ inl = 0
    \/ c.pad = 0 /\ inl % 8 # 0
    \/ c.enc = 0 /\ (inl < 16 \/ inl % 8 # 0)

\* what the transform answers on the input of the call that just returned
TransformRv ==
    CallWrapfn(ctx.wrapfn, ctx.ks, IF ctx.iv_set # 0 THEN Ptr(ctx.iv) ELSE NULL,
               Deref(last.args.in), last.args.inl, ctx.block).rv

\* the answer of a size query on this session for the input of the last call
QueryOfLast ==
    aes_wrap_cipher(ctx, NULL, last.args.inl, last.args.in, last.args.inl)

\* some Init call installed a key
Keyed(c) == c.ks.dir # "none"

\* some Init call was made
Initialized(c) == c.wrapfn # "NULL"

(***************************************************************************)
(* C1. An unwrap call with a real output buffer whose transform signals    *)
(* integrity failure (returns 0) returns a failure status and reports no   *)
(* output length.                                                          *)
(***************************************************************************)
C1_IntegrityFailureFails ==
    (/\ CipherReturned
     /\ Keyed(ctx)
     /\ ctx.enc = 0
     /\ ~last.args.out_null
     /\ last.invoked
     /\ TransformRv = 0)
    => (last.ret # 1 /\ ~last.outl_written)

(***************************************************************************)
(* C2. The update call on an input of invalid length (zero; not a multiple *)
(* of 8 in plain mode; shorter than 16 or not a multiple of 8 on unwrap)   *)
(* fails with an error status, does not invoke the transform and reports   *)
(* no output length.                                                       *)
(***************************************************************************)
C2_InvalidLengthFails ==
    (CipherReturned /\ InvalidInputLength(ctx, last.args.inl))
    => (last.ret # 1 /\ ~last.invoked /\ ~last.outl_written)

(***************************************************************************)
(* C3. The update call with a real output buffer whose capacity is less    *)
(* than the size a query returns for the same session and input fails with *)
(* the buffer-too-small error and does not invoke the transform.           *)
(***************************************************************************)
C3_SmallBufferRejected ==
    (/\ CipherReturned
     /\ Keyed(ctx)
     /\ ~last.args.out_null
     /\ ~InvalidInputLength(ctx, last.args.inl)
     /\ last.args.outsize < QueryOfLast.outl)
    => (/\ last.ret # 1
        /\ last.err = "PROV_R_OUTPUT_BUFFER_TOO_SMALL"
        /\ ~last.invoked)

(***************************************************************************)
(* C4. Size-query consistency: the length a real update call reports       *)
(* equals the length a query reports for the same session and input; for   *)
(* unwrap in padding mode the query is an upper bound.                     *)
(***************************************************************************)
C4_QueryMatchesReal ==
    (/\ CipherReturned
     /\ Keyed(ctx)
     /\ ~last.args.out_null
     /\ ~InvalidInputLength(ctx, last.args.inl)
     /\ last.outl_written)
    => (/\ QueryOfLast.outl_written
        /\ IF ctx.pad # 0 /\ ctx.enc = 0
           THEN QueryOfLast.outl >= last.outl
           ELSE QueryOfLast.outl = last.outl)

(***************************************************************************)
(* C5. A size query (no output buffer) on an initialized session and an    *)
(* input of valid length succeeds, does not invoke the transform, leaves   *)
(* the session unchanged and reports inl + 8 (plain wrap),                 *)
(* roundUp8(inl) + 8 (padding wrap) or inl - 8 (unwrap).                   *)
(* As claimed: whatever the output capacity passed along.                  *)
(* As the code has it: when the output capacity is at least the input      *)
(* length; a smaller capacity makes the query fail with the                *)
(* buffer-too-small error, the session still unchanged and the transform   *)
(* still not invoked.                                                      *)
(***************************************************************************)
IsQuery(l, c) ==
    /\ l.op = "cipher"
    /\ l.args.in # NULL
    /\ l.args.out_null
    /\ Initialized(c)
    /\ ~InvalidInputLength(c, l.args.inl)

QueryAnswer(l, c) ==
    /\ l.ret = 1
    /\ l.outl_written
    /\ l.outl = IF c.enc # 0
                THEN (IF c.pad # 0 THEN RoundUp8(l.args.inl) + 8
                      ELSE l.args.inl + 8)
                ELSE l.args.inl - 8

C5_QueryAnyCapacity ==
    [][IsQuery(last', ctx)
       => (QueryAnswer(last', ctx) /\ ~last'.invoked /\ ctx' = ctx)]_vars

C5_QueryWithCapacity ==
    [][IsQuery(last', ctx)
       => (/\ ~last'.invoked
           /\ ctx' = ctx
           /\ IF last'.args.outsize >= last'.args.inl
              THEN QueryAnswer(last', ctx)
              ELSE /\ last'.ret # 1
                   /\ ~last'.outl_written
                   /\ last'.err = "PROV_R_OUTPUT_BUFFER_TOO_SMALL")]_vars

C5_Witness ==
    /\ IsQuery(last, ctx)
    /\ ctx.pad # 0
    /\ ctx.enc # 0
    /\ last.args.inl % 8 # 0
    /\ last.ret = 1
    /\ last.outl = RoundUp8(last.args.inl) + 8

(***************************************************************************)
(* C6. Plain-mode round trip: for every key size, key and plaintext P of   *)
(* 8*n bytes, n >= 2, wrapping P on a session initialized with the key and *)
(* unwrapping the result on a session initialized with the same key and    *)
(* the same IV choice gives back P; the wrap call reports len(P) + 8 and   *)
(* the unwrap call reports len(P).                                         *)
(***************************************************************************)
SameKeyAndIv == rt.ukey = rt.key /\ rt.uiv = rt.iv

PlainCase ==
    /\ rt.v.ivbits = AES_WRAP_NOPAD_IVLEN * 8
    /\ Len(rt.P) % 8 = 0
    /\ Len(rt.P) >= 16

C6_PlainRoundTrip ==
    (rt.pc = "done" /\ PlainCase /\ SameKeyAndIv)
    => (/\ rt.wret = 1
        /\ rt.wlen = Len(rt.P) + 8
        /\ Len(rt.ct) = Len(rt.P) + 8
        /\ last.ret = 1
        /\ last.outl_written
        /\ last.outl = Len(rt.P)
        /\ last.out = rt.P)

C6_Witness ==
    /\ rt.pc = "done"
    /\ PlainCase
    /\ SameKeyAndIv
    /\ rt.v.kbits = 192
    /\ rt.iv # NULL
    /\ Len(rt.P) = 24
    /\ last.invoked
    /\ last.out = rt.P

(***************************************************************************)
(* C7. Padding-mode round trip: for every key size and plaintext P of one  *)
(* byte or more (any length, multiple of 8 or not), unwrap(wrap(P)) = P on *)
(* sessions with the same key and IV choice; the wrapped output has        *)
(* roundUp8(len(P)) + 8 bytes (16 for a 1-byte plaintext) and the unwrap   *)
(* call reports exactly len(P) bytes.                                      *)
(***************************************************************************)
PadCase == rt.v.ivbits = AES_WRAP_PAD_IVLEN * 8

C7_PadRoundTrip ==
    (rt.pc = "done" /\ PadCase /\ SameKeyAndIv)
    => (/\ rt.wret = 1
        /\ rt.wlen = RoundUp8(Len(rt.P)) + 8
        /\ Len(rt.ct) = RoundUp8(Len(rt.P)) + 8
        /\ last.ret = 1
        /\ last.outl_written
        /\ last.outl = Len(rt.P)
        /\ last.out = rt.P)

\* the single-semiblock case: one byte in, 16 bytes on the wire, one byte back
C7_Witness ==
    /\ rt.pc = "done"
    /\ PadCase
    /\ SameKeyAndIv
    /\ Len(rt.P) = 1
    /\ Len(rt.ct) = 16
    /\ last.invoked
    /\ last.out = rt.P

\* a plaintext that is not a multiple of 8 and needs the six rounds
C7_WitnessRounds ==
    /\ rt.pc = "done"
    /\ PadCase
    /\ SameKeyAndIv
    /\ Len(rt.P) = 17
    /\ Len(rt.ct) = 32
    /\ last.out = rt.P

(***************************************************************************)
(* C8. An Init call (either direction) given a key whose length differs    *)
(* from the variant's key size fails with the invalid-key-length error and *)
(* leaves the key schedule as it was.                                      *)
(***************************************************************************)
WrongKeyInit(l, c) ==
    l.op = "init" /\ l.args.key # NULL /\ l.args.keylen # c.keylen

C8_WrongKeyLengthRejected ==
    [][WrongKeyInit(last', ctx)
       => (/\ last'.ret = 0
           /\ last'.err = "PROV_R_INVALID_KEY_LENGTH"
           /\ ctx'.ks = ctx.ks)]_vars

C8_Witness ==
    /\ WrongKeyInit(last, ctx)
    /\ Keyed(ctx)
    /\ last.ret = 0

(***************************************************************************)
(* C9. A SetParams call carrying a key length different from the variant's *)
(* key size fails; failing or succeeding, SetParams leaves every field of  *)
(* the session unchanged.                                                  *)
(***************************************************************************)
CarriesOtherKeylen(params, c) ==
    \E i \in 1..Len(params) :
        /\ params[i].key = "keylen"
        /\ params[i].is_size_t
        /\ params[i].val # c.keylen

C9_SetParamsFrame ==
    [][last'.op = "set_ctx_params"
       => (/\ ctx' = ctx
           /\ CarriesOtherKeylen(last'.args.params, ctx) => last'.ret = 0)]_vars

C9_Witness ==
    /\ last.op = "set_ctx_params"
    /\ CarriesOtherKeylen(last.args.params, ctx)
    /\ Keyed(ctx)
    /\ last.ret = 0

C9_WitnessAccepted ==
    /\ last.op = "set_ctx_params"
    /\ last.args.params # <<>>
    /\ last.ret = 1

(***************************************************************************)
(* C10. The update call invokes the transform only on a session on which   *)
(* some earlier Init call installed a key.                                 *)
(***************************************************************************)
C10_TransformOnlyWhenKeyed ==
    (last.op = "cipher" /\ last.invoked) => Keyed(ctx)
(***************************************************************************)
(* C11. padMode is fixed: it is set at creation to (configured IV length   *)
(* = 4 bytes) and keeps that value through every Init (with or without     *)
(* key, with or without IV of any length), Process, Finalize and SetParams *)
(* call.                                                                   *)
(***************************************************************************)
VariantIvlen(c) ==
    IF c.pad # 0 THEN AES_WRAP_PAD_IVLEN ELSE AES_WRAP_NOPAD_IVLEN

C11_PadFixed ==
    /\ ctx.pad = IF ctx.ivlen = AES_WRAP_PAD_IVLEN THEN 1 ELSE 0
    /\ [][phase' # "freed" => ctx'.pad = ctx.pad]_vars

\* an Init stored an IV of another length than the variant's
C11_Witness ==
    /\ last.op = "init"
    /\ last.args.iv # NULL
    /\ ctx.ivlen = AES_WRAP_NOPAD_IVLEN
    /\ ctx.pad = 1

(***************************************************************************)
(* C12. Finalize, in any session state and with any output capacity,       *)
(* succeeds, reports zero bytes written and leaves the session unchanged.  *)
(***************************************************************************)
C12_FinalIsNoOp ==
    [][last'.op = "final"
       => (/\ last'.ret = 1
           /\ last'.outl_written
           /\ last'.outl = 0
           /\ ctx' = ctx)]_vars

C12_Witness ==
    /\ last.op = "final"
    /\ last.args.outsize > 0
    /\ Keyed(ctx)
    /\ ctx.iv_set = 1
    /\ last.outl = 0

\* Finalize on a session that never saw an Init call
C12_WitnessUninitialized ==
    /\ last.op = "final"
    /\ ~Initialized(ctx)
    /\ last.ret = 1
(***************************************************************************)
(* C13. When the session is destroyed, after whatever calls, the IV buffer *)
(* and the key schedule are overwritten before the memory is released: the *)
(* released memory holds no key or IV bytes.                               *)
(***************************************************************************)
C13_ErasedOnDestroy ==
    phase = "freed"
    => (ctx.iv = Zeros(GENERIC_BLOCK_SIZE) /\ ctx.ks = ZeroKs)

\* a session that had been given an IV was destroyed
C13_Witness ==
    /\ phase = "freed"
    /\ last.op = "freectx"
    /\ rt.iv # NULL
    /\ ctx.iv = Zeros(GENERIC_BLOCK_SIZE)

(***************************************************************************)
(* C14. Whenever the update call invokes the transform on a keyed session, *)
(* the key schedule was expanded for the session's current direction and   *)
(* block function: an encrypt schedule with the encrypt block function on  *)
(* a wrap session, a decrypt schedule with the decrypt block function on   *)
(* an unwrap session.                                                      *)
(***************************************************************************)
C14_ScheduleMatchesDirection ==
    (last.op = "cipher" /\ last.invoked /\ Keyed(ctx))
    => IF ctx.enc # 0
       THEN ctx.ks.dir = "enc" /\ ctx.block = "AES_encrypt"
       ELSE ctx.ks.dir = "dec" /\ ctx.block = "AES_decrypt"

C15_WitnessDefault ==
    /\ last.op = "cipher"
    /\ last.invoked
    /\ Keyed(ctx)
    /\ rt.iv = NULL
    /\ last.iv_arg = NULL

(***************************************************************************)
(* C16. A failed Init is atomic: when Init fails because the key has the   *)
(* wrong length, every field of the session (direction, block function,    *)
(* wrap function, IV bytes, IV length, ivIsSet, key schedule) has the      *)
(* value it had before the call.                                           *)
(***************************************************************************)
C16_FailedInitAtomic ==
    [][(last'.op = "init" /\ last'.ret = 0) => ctx' = ctx]_vars

(***************************************************************************)
(* C17. In every state of a live session the stored IV length equals the   *)
(* variant's configured IV length (8 plain, 4 padding), so that            *)
(* padMode = (IV length = 4).                                              *)
(***************************************************************************)
C17_IvlenIsVariants ==
    phase = "live" => ctx.ivlen = VariantIvlen(ctx)
====
